---- MODULE Spec2Model ----
(***************************************************************************)
(* Model of pandasai's code-execution stage                                *)
(* (src/pandasai/pipelines/chat/code_execution.py): CodeExecution.execute  *)
(* and the helpers it drives (execute_code, _required_dfs, _get_originals, *)
(* _retry_run_code).  One call of execute is followed statement by         *)
(* statement through the variable pc.                                      *)
(***************************************************************************)
EXTENDS Integers, Sequences, FiniteSets, TLC

\* ------------------------------------------------------------------ bounds

\* Largest configured max_retries explored (the smallest is MinRetries).
MaxRetries == 2

\* Longest table list explored.
MaxTables == 2

\* Config.max_retries is an unvalidated int: one negative value is explored,
\* for which the while loop of execute is never entered.
MinRetries == 0 - 1

\* ------------------------------------------------------------- data values

\* Python's None, as a table slot, as a result and as an error.
NoneTable == [id |-> 0 - 1, lazy |-> FALSE]
NoneResult == [type |-> "None", kind |-> "None"]
NoError == [kind |-> "None", attempt |-> 0, detail |-> {}]

\* The value a candidate binds to "result": a {type, value} envelope, kept
\* as its type tag and the runtime kind of its value.
ResultNumber == [type |-> "number", kind |-> "number"]
ResultMismatch == [type |-> "number", kind |-> "string"]
ResultString == [type |-> "string", kind |-> "string"]

\* Candidate code texts, by name.  text: the lexical fragments the substring
\* tests of _required_dfs can find in the text; reads: the names of the
\* namespace the code reads; slots: the positions of dfs it dereferences;
\* run: whether its own statements "raise" or "complete"; binds: the names it
\* has bound when it completes; res: the value it binds to "result"; writes:
\* the positions of dfs whose table it changes in place.
\*   raise ValueError("boom")
CodeRaise ==
    [text |-> {}, reads |-> {}, slots |-> {}, run |-> "raise",
     binds |-> {}, res |-> NoneResult, writes |-> {}]
\*   x = dfs[0]; x.dropna(inplace=True)
CodeNoResult ==
    [text |-> {"dfs[0]"}, reads |-> {"dfs"}, slots |-> {0},
     run |-> "complete", binds |-> {"x"}, res |-> NoneResult,
     writes |-> {0}]
\*   result = {"type": "number", "value": dfs[1].sum()}
CodeNumber ==
    [text |-> {"dfs[1]"}, reads |-> {"dfs"}, slots |-> {1},
     run |-> "complete", binds |-> {"result"}, res |-> ResultNumber,
     writes |-> {}]
\*   result = {"type": "number", "value": str(len(pd.concat(dfs)) + len(dfs[0]))}
CodeMismatch ==
    [text |-> {"pd.concat(dfs", "dfs[0]"}, reads |-> {"pd", "dfs"},
     slots |-> {0}, run |-> "complete", binds |-> {"result"},
     res |-> ResultMismatch, writes |-> {}]
\*   x = dfs[0]; result = {"type": "string", "value": df.columns[0]}
CodeAlias ==
    [text |-> {"dfs[0]"}, reads |-> {"dfs", "df"}, slots |-> {0},
     run |-> "complete", binds |-> {"x", "result"}, res |-> ResultString,
     writes |-> {}]

Codes == {"raise", "no_result", "number", "mismatch", "alias"}

\* The text and the behaviour of a candidate.
CodeOf ==
    [c \in Codes |->
        CASE c = "raise" -> CodeRaise
          [] c = "no_result" -> CodeNoResult
          [] c = "number" -> CodeNumber
          [] c = "mismatch" -> CodeMismatch
          [] c = "alias" -> CodeAlias]

\* Values of context.get("output_type"): unset (None), empty, or a type name.
OutputTypes == {"None", "", "number", "string"}

\* Table lists: table i (0-based) is already a DataFrame or a lazy connector.
TableLists ==
    UNION {[1..n -> BOOLEAN] : n \in 0..MaxTables}

MakeDfs(lazy) == [i \in 1..Len(lazy) |-> [id |-> i - 1, lazy |-> lazy[i]]]


\* ----------------------------------------------------------------- helpers

\* f"dfs[{i}]"
Subscript(i) ==
    CASE i = 0 -> "dfs[0]"
      [] i = 1 -> "dfs[1]"
      [] i = 2 -> "dfs[2]"
      [] i = 3 -> "dfs[3]"
      [] OTHER -> "dfs[4]"

\* fragment in code
Contains(code, fragment) == fragment \in CodeOf[code].text

\* _required_dfs without the slot-by-slot filter.
RequiredDfsAll(code, tables) == tables

\* _required_dfs without the test for the need-all idioms.
RequiredDfsNoIdiom(code, tables) ==
    [i \in 1..Len(tables) |->
        IF Contains(code, Subscript(i - 1)) THEN tables[i] ELSE NoneTable]

\* _required_dfs: the table list itself under a need-all idiom, else one
\* slot per table, the table or None; `required_dfs or self._dfs`.
RequiredDfs(code, tables) ==
    IF Contains(code, "for df in dfs") \/ Contains(code, "pd.concat(dfs")
    THEN tables
    ELSE LET required_dfs ==
                 [i \in 1..Len(tables) |->
                     IF Contains(code, Subscript(i - 1)) THEN tables[i]
                     ELSE NoneTable]
         IN  IF required_dfs # <<>> THEN required_dfs ELSE tables

\* df.pandas_df: the in-memory projection of a connector, after its fetch.
PandasDf(df) == [id |-> df.id, lazy |-> FALSE]

\* _get_originals with the None slots dropped instead of kept.
GetOriginalsCompact(slots) ==
    LET kept == SelectSeq(slots, LAMBDA df : df # NoneTable)
    IN  [i \in 1..Len(kept) |->
            IF ~kept[i].lazy THEN kept[i] ELSE PandasDf(kept[i])]

\* _get_originals: None stays None, a DataFrame passes through, anything
\* else is executed (fetched) and its pandas_df taken.
GetOriginals(slots) ==
    [i \in 1..Len(slots) |->
        IF slots[i] = NoneTable THEN NoneTable
        ELSE IF ~slots[i].lazy THEN slots[i]
        ELSE PandasDf(slots[i])]

\* The df.execute() calls of _get_originals, in order (table indices).
Fetches(slots) ==
    LET lazyAt(i) == slots[i] # NoneTable /\ slots[i].lazy
        F[i \in 0..Len(slots)] ==
            IF i = 0 THEN <<>>
            ELSE IF lazyAt(i) THEN Append(F[i - 1], slots[i].id)
            ELSE F[i - 1]
    IN  F[Len(slots)]

\* get_environment(additional_dependencies): the names of a new namespace.
additional_dependencies == {"np"}

GetEnvironment(deps) == {"pd", "__builtins__"} \cup deps

\* exec(code, environment): a NameError for a name the namespace lacks, an
\* IndexError or a fault on None for a slot that is missing or empty, a
\* fault on None for the alias of an empty slot, or the code's own fault.
ExecRaises(code, names, env_dfs) ==
    \/ CodeOf[code].run = "raise"
    \/ ~(CodeOf[code].reads \subseteq names)
    \/ \E i \in CodeOf[code].slots :
           i + 1 > Len(env_dfs) \/ env_dfs[i + 1] = NoneTable
    \/ "df" \in CodeOf[code].reads /\ env_dfs[1] = NoneTable

\* environment.get("result") in place of the membership test and the raise.
GetResultDefault(names, code) ==
    [error |-> "None",
     value |-> IF "result" \in names THEN CodeOf[code].res ELSE NoneResult]

\* The end of execute_code: NoResultFoundError unless "result" is a name of
\* the namespace, else the value bound to it.
GetResult(names, code) ==
    IF "result" \notin names
    THEN [error |-> "NoResultFoundError", value |-> NoneResult]
    ELSE [error |-> "None", value |-> CodeOf[code].res]

\* execute_code: what one call does.  error is "None" when it returns.
ExecuteCodeRun(code, tables, cfg) ==
    LET slots == RequiredDfs(code, tables)
        env_dfs == GetOriginals(slots)
        names == GetEnvironment(additional_dependencies) \cup {"dfs"}
                 \cup (IF Len(env_dfs) = 1 THEN {"df"} ELSE {})
                 \cup (IF cfg.direct_sql /\ Len(tables) > 0
                       THEN {"execute_sql_query"} ELSE {})
        sql_fault == cfg.direct_sql /\ Len(tables) = 0
        completed == ~sql_fault /\ ~ExecRaises(code, names, env_dfs)
        after == IF completed THEN names \cup CodeOf[code].binds ELSE names
        got == GetResult(after, code)
        \* In-place changes land on the objects of the namespace; a DataFrame
        \* of the table list is that very object.
        written == IF ~completed THEN {}
                   ELSE {env_dfs[i + 1].id : i \in CodeOf[code].writes}
    IN  [slots |-> slots,
         env_dfs |-> env_dfs,
         fetched |-> Fetches(slots),
         alias |-> IF Len(env_dfs) = 1 THEN env_dfs[1] ELSE NoneTable,
         before |-> names,
         names |-> after,
         written |-> {id \in written : \E i \in 1..Len(tables) :
                         tables[i].id = id /\ ~tables[i].lazy},
         completed |-> completed,
         error |-> IF ~completed THEN "ExecutionError" ELSE got.error,
         value |-> IF ~completed THEN NoneResult ELSE got.value]

\* OutputValidator.validate(expected_type, result): the result's type tag
\* and the kind of its value against the declared type, with the list of
\* violated expectations.
Validate(expected_type, res) ==
    LET errors == (IF res.type # expected_type THEN {"type"} ELSE {})
                  \cup (IF res.kind # expected_type THEN {"value"} ELSE {})
    IN  [ok |-> errors = {}, errors |-> errors]

\* OutputValidator.validate_result(result): the kind of the value against
\* the result's own type tag.
ValidateResult(res) == res.kind = res.type

\* `output_type != "" and (output_helper := output_type)`: None and the
\* empty string are falsy.
OutputTypePresent(ot) == ot # "" /\ ot # "None"

\* The checks with validate_result left out.
ValidationErrorDeclaredOnly(ot, res) ==
    IF ot # "" /\ ot # "None" /\ ~Validate(ot, res).ok
    THEN [kind |-> "InvalidLLMOutputType", detail |-> Validate(ot, res).errors]
    ELSE [kind |-> "None", detail |-> {}]

\* The checks with validate_result run before the declared-type check.
ValidationErrorSwapped(ot, res) ==
    IF ~ValidateResult(res)
    THEN [kind |-> "InvalidOutputValueMismatch", detail |-> {}]
    ELSE IF ot # "" /\ ot # "None" /\ ~Validate(ot, res).ok
    THEN [kind |-> "InvalidLLMOutputType", detail |-> Validate(ot, res).errors]
    ELSE [kind |-> "None", detail |-> {}]

\* The checks of execute after execute_code returned: the exception they
\* raise, of kind "None" when both pass.
ValidationError(ot, res) ==
    IF OutputTypePresent(ot) /\ ~Validate(ot, res).ok
    THEN [kind |-> "InvalidLLMOutputType", detail |-> Validate(ot, res).errors]
    ELSE IF ~ValidateResult(res)
    THEN [kind |-> "InvalidOutputValueMismatch", detail |-> {}]
    ELSE [kind |-> "None", detail |-> {}]

\* while retry_count < max_retries
LoopCondStrict(rc, max_retries) == rc < max_retries

\* while retry_count <= max_retries
LoopCond(rc, max_retries) == rc <= max_retries

\* The test with > for >=, with the budget left out, with the switch left out.
ShouldRaiseLate(cfg, rc) ==
    ~cfg.use_error_correction_framework \/ rc > cfg.max_retries

ShouldRaiseSwitchOnly(cfg, rc) == ~cfg.use_error_correction_framework

ShouldRaiseBudgetOnly(cfg, rc) == rc >= cfg.max_retries

\* not use_error_correction_framework or retry_count >= max_retries
ShouldRaise(cfg, rc) ==
    ~cfg.use_error_correction_framework \/ rc >= cfg.max_retries

\* The increment forgotten.
NextRetryCountStuck(rc) == rc

\* retry_count += 1
NextRetryCount(rc) == rc + 1

\* The Corrector's answer dropped.
NextCodeStale(current, returned) == current

\* code_to_run = self._retry_run_code(code_to_run, ...)
NextCode(current, returned) == returned

\* ------------------------------------------------------------------- state

VARIABLES
    config,         \* context.config: max_retries, use_error_correction_framework, direct_sql
    on_failure,     \* whether the on_failure callback is set
    on_retry,       \* whether the on_retry callback (the Corrector) is set
    output_type,    \* context.get("output_type")
    dfs,            \* self._dfs
    input,          \* the argument of execute
    pc,             \* position in execute
    retry_count,
    code_to_run,
    result,
    e,              \* the exception bound in the except clause
    raised,         \* the exception execute left with
    envelope,       \* the LogicUnitOutput execute returned
    loop_exit,      \* how the while loop was left: "none", "break", "guard", "raise"
    attempts,       \* one record per call of execute_code
    tables_written, \* the DataFrames of dfs that executed code changed in place
    failure_calls,  \* the calls of on_failure
    retry_calls,    \* the calls of on_retry
    resolver,       \* a call of _get_df_id_by_nearest_assignment
    text_gen        \* a call of HuggingFaceTextGen.call

vars ==
    <<config, on_failure, on_retry, output_type, dfs, input, pc, retry_count,
      code_to_run, result, e, raised, envelope, loop_exit, attempts,
      tables_written, failure_calls, retry_calls, resolver, text_gen>>

\* The static helper and the LLM client, which execute never calls.
utilities == <<resolver, text_gen>>

NoCall == [pc |-> "idle"]

setup == <<config, on_failure, on_retry, output_type, dfs>>

NoEnvelope == [value |-> NoneResult, success |-> FALSE]

Init ==
    /\ config \in [max_retries : MinRetries..MaxRetries,
                   use_error_correction_framework : BOOLEAN,
                   direct_sql : BOOLEAN]
    /\ on_failure \in BOOLEAN
    /\ on_retry \in BOOLEAN
    /\ output_type \in OutputTypes
    /\ dfs \in {MakeDfs(l) : l \in TableLists}
    /\ input \in Codes
    /\ pc = "ready"
    /\ retry_count = 0
    /\ code_to_run = "raise"
    /\ result = NoneResult
    /\ e = NoError
    /\ raised = NoError
    /\ envelope = NoEnvelope
    /\ loop_exit = "none"
    /\ attempts = <<>>
    /\ tables_written = {}
    /\ failure_calls = <<>>
    /\ retry_calls = <<>>
    /\ resolver = NoCall
    /\ text_gen = NoCall

\* ----------------------------------------------------------------- actions

\* execute, up to the while loop.
Start ==
    /\ pc = "ready"
    /\ UNCHANGED <<tables_written, utilities>>
    /\ retry_count' = 0
    /\ code_to_run' = input
    /\ result' = NoneResult
    /\ pc' = "loop"
    /\ UNCHANGED <<setup, input, e, raised, envelope, loop_exit, attempts,
                   failure_calls, retry_calls>>

\* The test of the while loop: into the body, or past the loop.
LoopGuard ==
    /\ pc = "loop"
    /\ UNCHANGED <<tables_written, utilities>>
    /\ \/ /\ LoopCond(retry_count, config.max_retries)
          /\ pc' = "execute"
          /\ UNCHANGED loop_exit
       \/ /\ ~LoopCond(retry_count, config.max_retries)
          /\ pc' = "return"
          /\ loop_exit' = "guard"
    /\ UNCHANGED <<setup, input, retry_count, code_to_run, result, e, raised,
                   envelope, attempts, failure_calls, retry_calls>>

\* result = self.execute_code(code_to_run, code_context)
ExecuteCode ==
    /\ pc = "execute"
    /\ UNCHANGED utilities
    /\ \E run \in {ExecuteCodeRun(code_to_run, dfs, config)} :
       LET n == Len(attempts) + 1
           err == IF run.error = "None" THEN NoError
                  ELSE [kind |-> run.error, attempt |-> n, detail |-> {}]
       IN  /\ attempts' = Append(attempts,
                  [code |-> code_to_run, count |-> retry_count,
                   slots |-> run.slots, env_dfs |-> run.env_dfs,
                   fetched |-> run.fetched, alias |-> run.alias,
                   before |-> run.before, names |-> run.names,
                   seen |-> {t.id : t \in {run.env_dfs[i] :
                                i \in 1..Len(run.env_dfs)}}
                            \cap tables_written,
                   completed |-> run.completed, value |-> run.value,
                   error |-> err])
           /\ tables_written' = tables_written \cup run.written
           /\ \/ /\ run.error = "None"
                 /\ result' = run.value
                 /\ pc' = "validate"
                 /\ UNCHANGED e
              \/ /\ run.error # "None"
                 /\ e' = err
                 /\ pc' = "failed"
                 /\ UNCHANGED result
    /\ UNCHANGED <<setup, input, retry_count, code_to_run, raised, envelope,
                   loop_exit, failure_calls, retry_calls>>

\* The two validations of the try block, then break.
ValidateOutput ==
    /\ pc = "validate"
    /\ UNCHANGED <<tables_written, utilities>>
    /\ LET v == ValidationError(output_type, result)
           n == Len(attempts)
           err == [kind |-> v.kind, attempt |-> n, detail |-> v.detail]
       IN  \/ /\ v.kind = "None"
              /\ pc' = "return"
              /\ loop_exit' = "break"
              /\ UNCHANGED <<e, attempts>>
           \/ /\ v.kind # "None"
              /\ e' = err
              /\ attempts' = [attempts EXCEPT ![n].error = err]
              /\ pc' = "failed"
              /\ UNCHANGED loop_exit
    /\ UNCHANGED <<setup, input, retry_count, code_to_run, result, raised,
                   envelope, failure_calls, retry_calls>>

\* on_failure called with the initial candidate instead of code_to_run.
OnFailureInitialCode ==
    /\ pc = "failed"
    /\ UNCHANGED <<tables_written, utilities>>
    /\ failure_calls' =
           IF on_failure
           THEN Append(failure_calls, [code |-> input, err |-> e])
           ELSE failure_calls
    /\ pc' = "decide"
    /\ UNCHANGED <<setup, input, retry_count, code_to_run, result, e, raised,
                   envelope, loop_exit, attempts, retry_calls>>

\* except Exception as e: log, then on_failure(code_to_run, traceback).
OnFailure ==
    /\ pc = "failed"
    /\ UNCHANGED <<tables_written, utilities>>
    /\ failure_calls' =
           IF on_failure
           THEN Append(failure_calls, [code |-> code_to_run, err |-> e])
           ELSE failure_calls
    /\ pc' = "decide"
    /\ UNCHANGED <<setup, input, retry_count, code_to_run, result, e, raised,
                   envelope, loop_exit, attempts, retry_calls>>

\* raise e, or retry_count += 1.
Decide ==
    /\ pc = "decide"
    /\ UNCHANGED <<tables_written, utilities>>
    /\ \/ /\ ShouldRaise(config, retry_count)
          /\ raised' = e
          /\ loop_exit' = "raise"
          /\ pc' = "raised"
          /\ UNCHANGED retry_count
       \/ /\ ~ShouldRaise(config, retry_count)
          /\ retry_count' = NextRetryCount(retry_count)
          /\ pc' = "retrying"
          /\ UNCHANGED <<raised, loop_exit>>
    /\ UNCHANGED <<setup, input, code_to_run, result, e, envelope, attempts,
                   failure_calls, retry_calls>>

\* _retry_run_code returning the code it was given when on_retry is unset.
RetryRunCodeKeep ==
    /\ pc = "retrying"
    /\ UNCHANGED <<tables_written, utilities>>
    /\ \/ /\ on_retry
          /\ \E returned \in Codes :
                /\ retry_calls' = Append(retry_calls,
                       [code |-> code_to_run, err |-> e, returned |-> returned])
                /\ code_to_run' = returned
       \/ /\ ~on_retry
          /\ UNCHANGED <<retry_calls, code_to_run>>
    /\ pc' = "loop"
    /\ UNCHANGED <<setup, input, retry_count, result, e, envelope, attempts,
                   failure_calls, raised, loop_exit>>

\* code_to_run = self._retry_run_code(code_to_run, context, logger, e):
\* on_retry(code, e) when it is set, else raise e.
RetryRunCode ==
    /\ pc = "retrying"
    /\ UNCHANGED <<tables_written, utilities>>
    /\ \/ /\ on_retry
          /\ \E returned \in Codes :
                /\ retry_calls' = Append(retry_calls,
                       [code |-> code_to_run, err |-> e, returned |-> returned])
                /\ code_to_run' = NextCode(code_to_run, returned)
          /\ pc' = "loop"
          /\ UNCHANGED <<raised, loop_exit>>
       \/ /\ ~on_retry
          /\ raised' = e
          /\ loop_exit' = "raise"
          /\ pc' = "raised"
          /\ UNCHANGED <<retry_calls, code_to_run>>
    /\ UNCHANGED <<setup, input, retry_count, result, e, envelope, attempts,
                   failure_calls>>

\* return LogicUnitOutput(result, True, ...)
Return ==
    /\ pc = "return"
    /\ UNCHANGED <<tables_written, utilities>>
    /\ envelope' = [value |-> result, success |-> TRUE]
    /\ pc' = "returned"
    /\ UNCHANGED <<setup, input, retry_count, code_to_run, result, e, raised,
                   loop_exit, attempts, failure_calls, retry_calls>>

Next ==
    \/ Start
    \/ LoopGuard
    \/ ExecuteCode
    \/ ValidateOutput
    \/ OnFailure
    \/ Decide
    \/ RetryRunCode
    \/ Return

Spec == Init /\ [][Next]_vars

\* ----------------------------------------- _get_df_id_by_nearest_assignment

\* Longest list of assignment nodes explored.
MaxAssignments == 2

\* Last source line explored.
MaxLine == 3

\* None, where a label is expected.
NoneLabel == "None"

\* The right-hand sides explored, by their source text: a subscript of dfs
\* with a constant index, one with a name as index, a subscript of another
\* name, and a bare name.
Values == {"dfs[0]", "dfs[2]", "dfs[i]", "foo[1]", "y"}

\* The first targets explored: two names and a subscript.
Targets == {"x", "y", "x[0]"}

Assignments ==
    UNION {[1..n -> [lineno : 1..MaxLine, targets : Targets, value : Values]] :
           n \in 0..MaxAssignments}

\* isinstance(assignment.value, ast.Subscript)
IsSubscript(value) == value \in {"dfs[0]", "dfs[2]", "dfs[i]", "foo[1]"}

\* assignment.value.value.id: an ast.Name has no value, so reading it raises
\* AttributeError.
HasValueId(value) == value \in {"dfs[0]", "dfs[2]", "dfs[i]", "foo[1]"}

ValueId(value) == IF value = "foo[1]" THEN "foo" ELSE "dfs"

\* assignment.targets[0].id: an ast.Subscript has no id.
HasTargetId(target) == target \in {"x", "y"}

\* assignment.value.slice.value: an ast.Name as the slice has no value.
HasSliceValue(value) == value \in {"dfs[0]", "dfs[2]", "foo[1]"}

SliceValue(value) ==
    CASE value = "dfs[0]" -> 0
      [] value = "dfs[2]" -> 2
      [] value = "foo[1]" -> 1

\* sorted(assignments, key=lambda node: node.lineno): a stable sort.
RECURSIVE SortedByLineno(_)
SortedByLineno(nodes) ==
    IF nodes = <<>> THEN <<>>
    ELSE LET rest == SortedByLineno(SubSeq(nodes, 1, Len(nodes) - 1))
             node == nodes[Len(nodes)]
             k == Cardinality({j \in 1..Len(rest) :
                                  rest[j].lineno <= node.lineno})
         IN  SubSeq(rest, 1, k) \o <<node>> \o SubSeq(rest, k + 1, Len(rest))

\* The try block of the loop body; an AttributeError leaves
\* nearest_assignment as it was.
Visit(nearest_assignment, assignment, target_name) ==
    IF ~HasValueId(assignment.value) THEN nearest_assignment
    ELSE IF ~HasTargetId(assignment.targets) THEN nearest_assignment
    ELSE IF /\ IsSubscript(assignment.value)
            /\ ValueId(assignment.value) = "dfs"
            /\ assignment.targets = target_name
         THEN IF HasSliceValue(assignment.value)
              THEN Subscript(SliceValue(assignment.value))
              ELSE nearest_assignment
         ELSE nearest_assignment

\* No run of execute: the controller as it is constructed.
NoExecute ==
    /\ config = [max_retries |-> 0, use_error_correction_framework |-> FALSE,
                 direct_sql |-> FALSE]
    /\ on_failure = FALSE
    /\ on_retry = FALSE
    /\ output_type = ""
    /\ dfs = <<>>
    /\ input = "raise"
    /\ pc = "ready"
    /\ retry_count = 0
    /\ code_to_run = "raise"
    /\ result = NoneResult
    /\ e = NoError
    /\ raised = NoError
    /\ envelope = NoEnvelope
    /\ loop_exit = "none"
    /\ attempts = <<>>
    /\ tables_written = {}
    /\ failure_calls = <<>>
    /\ retry_calls = <<>>

execution ==
    <<config, on_failure, on_retry, output_type, dfs, input, pc, retry_count,
      code_to_run, result, e, raised, envelope, loop_exit, attempts,
      tables_written, failure_calls, retry_calls>>

InitResolve ==
    /\ NoExecute
    /\ text_gen = NoCall
    /\ \E current_lineno \in 1..MaxLine, assignments \in Assignments,
          target_name \in {"x", "y"} :
          resolver = [pc |-> "called",
                      current_lineno |-> current_lineno,
                      assignments |-> assignments,
                      target_name |-> target_name,
                      i |-> 0,
                      nearest_assignment |-> NoneLabel,
                      returned |-> NoneLabel]

\* nearest_assignment = None; assignments = sorted(...)
ResolveSort ==
    /\ resolver.pc = "called"
    /\ resolver' = [resolver EXCEPT
                       !.pc = "for",
                       !.assignments = SortedByLineno(resolver.assignments),
                       !.i = 1,
                       !.nearest_assignment = NoneLabel]
    /\ UNCHANGED <<execution, text_gen>>

\* One pass of the for loop: return at the first assignment after
\* current_lineno, else look at the assignment.
ResolveVisit ==
    /\ resolver.pc = "for"
    /\ resolver.i <= Len(resolver.assignments)
    /\ LET assignment == resolver.assignments[resolver.i]
       IN  \/ /\ assignment.lineno > resolver.current_lineno
              /\ resolver' = [resolver EXCEPT
                                 !.pc = "returned",
                                 !.returned = resolver.nearest_assignment]
           \/ /\ ~(assignment.lineno > resolver.current_lineno)
              /\ resolver' = [resolver EXCEPT
                                 !.i = resolver.i + 1,
                                 !.nearest_assignment =
                                     Visit(resolver.nearest_assignment,
                                           assignment, resolver.target_name)]
    /\ UNCHANGED <<execution, text_gen>>

\* The for loop runs out: the function ends without a return statement.
ResolveEnd ==
    /\ resolver.pc = "for"
    /\ resolver.i > Len(resolver.assignments)
    /\ resolver' = [resolver EXCEPT !.pc = "returned", !.returned = NoneLabel]
    /\ UNCHANGED <<execution, text_gen>>

NextResolve ==
    \/ ResolveSort
    \/ ResolveVisit
    \/ ResolveEnd

SpecResolve == InitResolve /\ [][NextResolve]_vars

\* ------------------------------------------------- HuggingFaceTextGen.call

\* Longest generated text explored, in characters.
MaxText == 3

\* Longest list of stop sequences explored.
MaxStops == 2

\* Longest stop sequence explored, in characters.
MaxStopLen == 2

\* The characters of the texts explored; a text is a sequence of them.
Alphabet == {"a", "s", "t"}

Texts(n) == UNION {[1..k -> Alphabet] : k \in 0..n}

\* The stop sequences explored: the server is given non-empty ones.
StopSequences ==
    UNION {[1..k -> Texts(MaxStopLen) \ {<<>>}] : k \in 0..MaxStops}

\* text[k:].startswith(sub), k counted from 1.
IsAt(text, sub, k) ==
    /\ k + Len(sub) - 1 <= Len(text)
    /\ SubSeq(text, k, k + Len(sub) - 1) = sub

\* sub in text
In(sub, text) == \E k \in 1..Len(text) + 1 : IsAt(text, sub, k)

\* text.index(sub), counted from 1
Index(text, sub) ==
    CHOOSE k \in 1..Len(text) + 1 :
        /\ IsAt(text, sub, k)
        /\ \A j \in 1..k - 1 : ~IsAt(text, sub, j)

\* "".join(chunk.template for chunk in ...)
RECURSIVE Join(_)
Join(chunks) ==
    IF chunks = <<>> THEN <<>>
    ELSE chunks[1] \o Join(SubSeq(chunks, 2, Len(chunks)))

InitTextGen ==
    /\ NoExecute
    /\ resolver = NoCall
    /\ \E streaming \in BOOLEAN, stop_sequences \in StopSequences :
          text_gen = [pc |-> "called",
                      streaming |-> streaming,
                      stop_sequences |-> stop_sequences,
                      generated_text |-> <<>>,
                      i |-> 0,
                      returned |-> <<>>]

\* if self.streaming: return "".join(...) over the chunks of the stream,
\* one token a chunk.
GenerateStream ==
    /\ text_gen.pc = "called"
    /\ text_gen.streaming
    /\ \E tokens \in Texts(MaxText) :
          text_gen' = [text_gen EXCEPT
                          !.pc = "returned",
                          !.returned =
                              Join([j \in 1..Len(tokens) |-> <<tokens[j]>>])]
    /\ UNCHANGED <<execution, resolver>>

\* res = self.client.generate(prompt, **params)
Generate ==
    /\ text_gen.pc = "called"
    /\ ~text_gen.streaming
    /\ \E generated_text \in Texts(MaxText) :
          text_gen' = [text_gen EXCEPT
                          !.pc = "strip",
                          !.generated_text = generated_text,
                          !.i = 1]
    /\ UNCHANGED <<execution, resolver>>

\* One pass of the loop over self.stop_sequences.
StripStopSequence ==
    /\ text_gen.pc = "strip"
    /\ text_gen.i <= Len(text_gen.stop_sequences)
    /\ LET stop_seq == text_gen.stop_sequences[text_gen.i]
           text == text_gen.generated_text
       IN  text_gen' = [text_gen EXCEPT
                          !.i = text_gen.i + 1,
                          !.generated_text =
                              IF In(stop_seq, text)
                              THEN SubSeq(text, 1, Index(text, stop_seq) - 1)
                              ELSE text]
    /\ UNCHANGED <<execution, resolver>>

\* return res.generated_text
ReturnText ==
    /\ text_gen.pc = "strip"
    /\ text_gen.i > Len(text_gen.stop_sequences)
    /\ text_gen' = [text_gen EXCEPT
                       !.pc = "returned",
                       !.returned = text_gen.generated_text]
    /\ UNCHANGED <<execution, resolver>>

NextTextGen ==
    \/ GenerateStream
    \/ Generate
    \/ StripStopSequence
    \/ ReturnText

SpecTextGen == InitTextGen /\ [][NextTextGen]_vars

\* ------------------------------------------------------------------ claims

Terminal == pc \in {"returned", "raised"}

NumAttempts == Len(attempts)

\* Attempt i failed (its error is final once pc has left "validate").
Failed(i) == attempts[i].error.kind # "None"

Settled(i) == i < NumAttempts \/ pc # "validate"

\* The except clause of attempt i has run to its end.
HandlerDone(i) == i < NumAttempts \/ pc \in {"loop", "execute", "raised"}

\* Attempt i was handed to the Corrector, with its code and its error.
Retried(i) ==
    /\ Len(retry_calls) >= i
    /\ retry_calls[i].code = attempts[i].code
    /\ retry_calls[i].err = attempts[i].error

\* execute left with the error of attempt i, which was the last one.
Reraised(i) ==
    /\ i = NumAttempts
    /\ pc = "raised"
    /\ raised = attempts[i].error
    /\ envelope = NoEnvelope

\* C1: with max_retries >= 0, one call of execute performs at most
\* max_retries + 1 code executions.
C1_AttemptsBounded ==
    config.max_retries >= 0 => NumAttempts <= config.max_retries + 1

C1_Witness ==
    /\ config.max_retries = MaxRetries
    /\ NumAttempts = config.max_retries + 1
    /\ pc = "raised"

\* Attempt i failed with correction disabled or the retry count at max_retries.
C2_Exhausting(i) ==
    /\ Failed(i)
    /\ \/ ~config.use_error_correction_framework
       \/ attempts[i].count >= config.max_retries

\* C2: a failed attempt met with correction disabled, or with the retry
\* count at max_retries, is the last attempt; execute leaves with the error
\* of that attempt, unchanged, and returns no envelope.
C2_OriginalErrorReraised ==
    \A i \in 1..NumAttempts :
        C2_Exhausting(i) /\ Settled(i) =>
            /\ i = NumAttempts
            /\ pc \in {"failed", "decide", "raised"}
            /\ envelope = NoEnvelope
            /\ pc = "raised" => raised = attempts[i].error /\ raised # NoError

C2_Witness ==
    /\ pc = "raised"
    /\ config.use_error_correction_framework
    /\ NumAttempts >= 2
    /\ C2_Exhausting(NumAttempts)
    /\ raised.attempt = NumAttempts

\* Both checks of a result, the declared-type one only for a non-empty type.
C3_Passes(res) ==
    /\ ValidateResult(res)
    /\ output_type \notin {"", "None"} => Validate(output_type, res).ok

\* C3: an attempt for which execute_code returned a result ends without
\* error exactly when the result passes the envelope-consistency check and,
\* with a non-empty declared output type, the declared-type check; with no
\* declared type the envelope check alone decides.
C3_SuccessOnlyIfValidated ==
    /\ \A i \in 1..NumAttempts :
           Settled(i) /\ attempts[i].value # NoneResult =>
               (~Failed(i) <=> C3_Passes(attempts[i].value))
    /\ envelope.success /\ NumAttempts > 0 => C3_Passes(envelope.value)

C3_Witness ==
    /\ pc = "returned"
    /\ output_type = "string"
    /\ NumAttempts = 2
    /\ attempts[1].error.kind = "InvalidLLMOutputType"
    /\ envelope.success

\* C4: with max_retries >= 0 the loop is never left through its guard, and a
\* returned envelope holds the result bound by the code of the last attempt,
\* which passed validation: never None, never the result of a failed attempt.
C4_EnvelopeIsLastResult ==
    config.max_retries >= 0 =>
        /\ loop_exit # "guard"
        /\ pc = "returned" =>
               /\ NumAttempts >= 1
               /\ ~Failed(NumAttempts)
               /\ \A i \in 1..(NumAttempts - 1) : Failed(i)
               /\ envelope.success
               /\ envelope.value = CodeOf[attempts[NumAttempts].code].res
               /\ envelope.value # NoneResult
               /\ ValidateResult(envelope.value)

C4_Witness ==
    /\ pc = "returned"
    /\ config.max_retries >= 1
    /\ NumAttempts = 2
    /\ attempts[1].value # NoneResult
    /\ attempts[1].value # envelope.value

\* C5: with no on_retry callback, a failed first attempt is the only
\* attempt: execute leaves with that attempt's error, also with correction
\* enabled and retries left.
C5_NoCorrectorOneAttempt ==
    ~on_retry /\ NumAttempts >= 1 /\ Failed(1) /\ Settled(1) =>
        /\ NumAttempts = 1
        /\ retry_calls = <<>>
        /\ pc \in {"failed", "decide", "retrying", "raised"}
        /\ pc = "raised" => raised = attempts[1].error

C5_Witness ==
    /\ ~on_retry
    /\ config.use_error_correction_framework
    /\ config.max_retries >= 1
    /\ retry_count = 1
    /\ pc = "raised"
    /\ NumAttempts = 1

\* C6: with correction disabled, a failed first attempt is the only attempt
\* for every max_retries: on_retry is never called, no retry is counted and
\* execute leaves with that attempt's error.
C6_DisabledNoRetry ==
    /\ ~config.use_error_correction_framework
    /\ NumAttempts >= 1
    /\ Failed(1)
    /\ Settled(1)
    =>  /\ NumAttempts = 1
        /\ retry_calls = <<>>
        /\ retry_count = 0
        /\ pc \in {"failed", "decide", "raised"}
        /\ pc = "raised" => raised = attempts[1].error

C6_Witness ==
    /\ ~config.use_error_correction_framework
    /\ config.max_retries = MaxRetries
    /\ on_retry
    /\ pc = "raised"
    /\ raised.attempt = 1

\* The failed attempts that another attempt followed.
C7_FollowedFailures ==
    Cardinality({i \in 1..(NumAttempts - 1) : Failed(i)})

C8_CorrectorChain ==
    /\ NumAttempts >= 1 => attempts[1].code = input
    /\ \A j \in 1..Len(retry_calls) :
           /\ j <= NumAttempts
           /\ retry_calls[j].code = attempts[j].code
           /\ retry_calls[j].err = attempts[j].error
           /\ Failed(j)
           /\ j + 1 <= NumAttempts =>
                  attempts[j + 1].code = retry_calls[j].returned
           /\ j = Len(retry_calls) /\ pc \in {"loop", "execute"} =>
                  code_to_run = retry_calls[j].returned

C8_Witness ==
    /\ NumAttempts = 3
    /\ attempts[2].code # input
    /\ attempts[3].code \notin {input, attempts[2].code}
    /\ retry_calls[2].code = attempts[2].code

\* C9: an execution that completes with no "result" bound by the candidate
\* fails with NoResultFoundError, whatever retry_count and max_retries are.
C9_NoResultFound ==
    \A i \in 1..NumAttempts :
        /\ attempts[i].completed
        /\ "result" \notin CodeOf[attempts[i].code].binds
        =>
            /\ attempts[i].error.kind = "NoResultFoundError"
            /\ attempts[i].value = NoneResult

C9_Witness ==
    /\ pc = "raised"
    /\ NumAttempts >= 2
    /\ attempts[1].completed
    /\ attempts[1].error.kind = "NoResultFoundError"
    /\ attempts[1].count < config.max_retries
    /\ attempts[NumAttempts].completed
    /\ attempts[NumAttempts].count = config.max_retries
    /\ raised.kind = "NoResultFoundError"

\* A result was returned by execute_code and fails the declared output type.
C10_DeclaredMismatch(i) ==
    /\ output_type \notin {"", "None"}
    /\ attempts[i].value # NoneResult
    /\ ~Validate(output_type, attempts[i].value).ok

C10_Carries(i) ==
    /\ attempts[i].error.kind = "InvalidLLMOutputType"
    /\ attempts[i].error.detail = Validate(output_type, attempts[i].value).errors
    /\ attempts[i].error.detail # {}

\* C10 as stated: a declared-type failure is InvalidLLMOutputType with the
\* violated expectations, handed to the Corrector whenever correction is
\* enabled and retry budget remains, and re-raised otherwise.
C10_AsStated ==
    \A i \in 1..NumAttempts :
        C10_DeclaredMismatch(i) /\ Settled(i) =>
            /\ C10_Carries(i)
            /\ HandlerDone(i) =>
                   IF /\ config.use_error_correction_framework
                      /\ attempts[i].count < config.max_retries
                   THEN Retried(i)
                   ELSE Reraised(i)

\* The rule of the except clause for a failed attempt i.
C10_Handled(i) ==
    HandlerDone(i) =>
        IF /\ config.use_error_correction_framework
           /\ attempts[i].count < config.max_retries
           /\ on_retry
        THEN Retried(i)
        ELSE Reraised(i)

\* C10 (amended): a declared-type failure is InvalidLLMOutputType with the
\* violated expectations; it is handed to the Corrector when correction is
\* enabled, retry budget remains and on_retry is set, and re-raised
\* otherwise, by the same rule as an execution exception.
C10_DeclaredTypeFailureRetried ==
    \A i \in 1..NumAttempts :
        /\ C10_DeclaredMismatch(i) /\ Settled(i) =>
               C10_Carries(i) /\ C10_Handled(i)
        /\ attempts[i].error.kind = "ExecutionError" => C10_Handled(i)

C10_Witness ==
    /\ pc = "raised"
    /\ NumAttempts >= 2
    /\ attempts[1].error.kind = "InvalidLLMOutputType"
    /\ raised.kind = "InvalidLLMOutputType"
    /\ raised.attempt = NumAttempts
    /\ on_retry

\* The failed attempts whose except clause is past its on_failure call.
C11_Notified ==
    {i \in 1..NumAttempts :
        Failed(i) /\ (i < NumAttempts \/ pc \notin {"validate", "failed"})}

\* C11: with on_failure set, it has been called exactly once for each failed
\* attempt, in order, with that attempt's code and error, by the time the
\* test that decides between raise and retry is reached; a successful
\* attempt adds no call.
C11_FailureNotifiedOnce ==
    on_failure =>
        /\ Len(failure_calls) = Cardinality(C11_Notified)
        /\ \A j \in 1..Len(failure_calls) :
               /\ Failed(j)
               /\ failure_calls[j].code = attempts[j].code
               /\ failure_calls[j].err = attempts[j].error
        /\ pc \in {"decide", "retrying", "raised"} =>
               Len(failure_calls) = NumAttempts

C11_Witness ==
    /\ on_failure
    /\ pc = "returned"
    /\ NumAttempts = 3
    /\ Len(failure_calls) = 2
    /\ failure_calls[2].code # input

\* The code text holds one of the two need-all idioms.
NeedAll(code) ==
    \/ "for df in dfs" \in CodeOf[code].text
    \/ "pd.concat(dfs" \in CodeOf[code].text

\* The code text holds the positional subscript of table index i.
Indexed(code, i) == Subscript(i) \in CodeOf[code].text

\* The table indices fetched by attempt k.
FetchedBy(k) == {attempts[k].fetched[j] : j \in 1..Len(attempts[k].fetched)}

\* C12: in an attempt whose code holds no need-all idiom, a table whose
\* positional subscript does not occur in the code is not fetched.
C12_UnreferencedNeverFetched ==
    \A k \in 1..NumAttempts :
        ~NeedAll(attempts[k].code) =>
            \A i \in 0..(Len(dfs) - 1) :
                ~Indexed(attempts[k].code, i) => i \notin FetchedBy(k)

C12_Witness ==
    /\ NumAttempts >= 1
    /\ attempts[1].code = "number"
    /\ Len(dfs) = 2
    /\ dfs[1].lazy /\ dfs[2].lazy
    /\ attempts[1].fetched = <<1>>

\* C13: in an attempt whose code holds a need-all idiom, every lazy table of
\* the table list is fetched, once and in order, and no slot of the exposed
\* sequence is None, also when the code indexes only one table.
C13_NeedAllFetchesAll ==
    \A k \in 1..NumAttempts :
        NeedAll(attempts[k].code) =>
            /\ FetchedBy(k) = {dfs[i].id : i \in {j \in 1..Len(dfs) : dfs[j].lazy}}
            /\ Len(attempts[k].fetched) = Cardinality(FetchedBy(k))
            /\ Len(attempts[k].env_dfs) = Len(dfs)
            /\ \A i \in 1..Len(dfs) : attempts[k].env_dfs[i] # NoneTable

C13_Witness ==
    /\ NumAttempts >= 1
    /\ attempts[1].code = "mismatch"
    /\ Indexed("mismatch", 0) /\ ~Indexed("mismatch", 1)
    /\ Len(dfs) = 2
    /\ dfs[1].lazy /\ dfs[2].lazy
    /\ attempts[1].fetched = <<0, 1>>

\* C14 as stated: for code with no need-all idiom and the subscript of no
\* table, _required_dfs returns the table list itself, so that a non-empty
\* table list leaves at least one table in the namespace.
C14_AsStated ==
    \A k \in 1..NumAttempts :
        /\ ~NeedAll(attempts[k].code)
        /\ \A i \in 0..(Len(dfs) - 1) : ~Indexed(attempts[k].code, i)
        =>  /\ attempts[k].slots = dfs
            /\ Len(dfs) > 0 =>
                   \E i \in 1..Len(attempts[k].env_dfs) :
                       attempts[k].env_dfs[i] # NoneTable

\* The positions of the exposed sequence of attempt k that hold a table.
C15_Resolved(k) ==
    {i \in 1..Len(attempts[k].env_dfs) : attempts[k].env_dfs[i] # NoneTable}

\* C15 as stated: when exactly one slot of the exposed sequence holds a
\* table, the namespace has the alias df, bound to that very table.
C15_AsStated ==
    \A k \in 1..NumAttempts :
        Cardinality(C15_Resolved(k)) = 1 =>
            /\ "df" \in attempts[k].before
            /\ \A i \in C15_Resolved(k) :
                   attempts[k].alias = attempts[k].env_dfs[i]

\* C16 as stated: an attempt after the first starts with none of the names
\* bound by the code of an earlier attempt and sees no table an earlier
\* attempt changed.
C16_AsStated ==
    \A k \in 2..NumAttempts :
        /\ \A j \in 1..(k - 1) :
               attempts[k].before \cap CodeOf[attempts[j].code].binds = {}
        /\ attempts[k].seen = {}

\* C19: the sequence exposed to the code of an attempt is as long as the
\* table list; its slot i is None or the in-memory form of table i, the
\* DataFrame itself when table i is one; only lazy tables are fetched.
C19_PositionalSlots ==
    \A k \in 1..NumAttempts :
        /\ Len(attempts[k].env_dfs) = Len(dfs)
        /\ \A i \in 1..Len(dfs) :
               /\ attempts[k].env_dfs[i] \in
                      {NoneTable, [id |-> dfs[i].id, lazy |-> FALSE]}
               /\ ~dfs[i].lazy => dfs[i].id \notin FetchedBy(k)
               /\ ~dfs[i].lazy /\ attempts[k].slots[i] # NoneTable =>
                      attempts[k].env_dfs[i] = dfs[i]

C19_Witness ==
    /\ NumAttempts >= 1
    /\ attempts[1].code = "number"
    /\ Len(dfs) = 2
    /\ dfs[1].lazy /\ ~dfs[2].lazy
    /\ attempts[1].env_dfs = <<NoneTable, dfs[2]>>
    /\ attempts[1].fetched = <<>>

\* The state of the retry controller at each position of execute. The loop
\* test, execute_code and the validations are EXECUTING; the except clause
\* is FAILED up to the call of the Corrector, which is RETRYING; without a
\* Corrector _retry_run_code raises at once, still from FAILED.
State ==
    CASE pc = "ready" -> "READY"
      [] pc \in {"loop", "execute", "validate", "return"} -> "EXECUTING"
      [] pc \in {"failed", "decide"} -> "FAILED"
      [] pc = "retrying" -> IF on_retry THEN "RETRYING" ELSE "FAILED"
      [] pc = "returned" -> "SUCCESS"
      [] pc = "raised" -> "EXHAUSTED"

Transitions ==
    {<<"READY", "EXECUTING">>, <<"EXECUTING", "SUCCESS">>,
     <<"EXECUTING", "FAILED">>, <<"FAILED", "RETRYING">>,
     <<"FAILED", "EXHAUSTED">>, <<"RETRYING", "EXECUTING">>}

C18_Success ==
    State = "SUCCESS" /\ envelope.success /\ raised = NoError

C18_Exhausted ==
    State = "EXHAUSTED" /\ raised # NoError /\ envelope = NoEnvelope

\* What is left of a run: the attempts the budget still allows, then the
\* statements left in the current pass of the loop.
C18_Variant ==
    (config.max_retries + 1 - retry_count) * 16 +
    CASE pc = "ready" -> 10
      [] pc = "retrying" -> 9
      [] pc = "loop" -> 8
      [] pc = "execute" -> 7
      [] pc = "validate" -> 6
      [] pc = "failed" -> 5
      [] pc = "decide" -> 4
      [] pc = "return" -> 1
      [] pc \in {"returned", "raised"} -> 0

C17_Matching ==
    {a \in {resolver.assignments[j] : j \in 1..Len(resolver.assignments)} :
        /\ a.lineno <= resolver.current_lineno
        /\ a.value \in {"dfs[0]", "dfs[2]"}
        /\ a.targets = resolver.target_name}

C17_Expected ==
    IF C17_Matching = {} THEN {NoneLabel}
    ELSE {a.value : a \in {b \in C17_Matching :
                              \A c \in C17_Matching : c.lineno <= b.lineno}}

\* C17: _get_df_id_by_nearest_assignment returns the label of the latest
\* assignment of a constant-index subscript of dfs to the target name at or
\* before the current line, and None when there is none, whether or not an
\* assignment follows the current line.
C17_AsStated ==
    resolver.pc = "returned" => resolver.returned \in C17_Expected

\* C20: with stop sequences configured, the text call returns contains no
\* stop sequence, whether or not the response is streamed.
C20_AsStated ==
    text_gen.pc = "returned" /\ text_gen.stop_sequences # <<>> =>
        \A j \in 1..Len(text_gen.stop_sequences) :
            ~In(text_gen.stop_sequences[j], text_gen.returned)

====
